---- MODULE Spec2Model ----
(***************************************************************************)
(* Model of lca_algebraic/base_utils.py (interpolate, Max, Min, _getDb,    *)
(* SymDict) and lca_algebraic/__init__.py (deleteDb, resetDb, importDb).   *)
(*                                                                         *)
(* Numbers are exact rationals <<n, d>> (d > 0, lowest terms): Python's    *)
(* "/" is true division, so 1 / 2 is one half and not 0.  Floating-point   *)
(* rounding is not modelled: the values are those of exact arithmetic, as  *)
(* for the symbolic (sympy) expressions the helpers are written for.  The  *)
(* numbers drawn as inputs are small integers and halves of integers,      *)
(* which binary floating point holds exactly.                              *)
(***************************************************************************)
EXTENDS Integers, Sequences, FiniteSets, TLC

VARIABLES
    x, x1, x2, y1, y2,   \* arguments of a call of interpolate
    result,              \* what the call returned ("none" before it)
    self,                \* the SymDict an operation is called on
    op,                  \* the last SymDict operation ("none" before it)
    args,                \* its other arguments, as a tuple
    res,                 \* what it returned
    databases,           \* bw.databases: the registered names and their metadata
    data,                \* the activities stored under each database name
    dbs,                 \* base_utils.dbs: the pool of Database instances
    created,             \* how many Database instances _getDb has constructed
    made,                \* how many of them _getDb constructed for each name
    first,               \* the instance the first _getDb call of each name returned
    last                 \* the last database operation, with what it saw and returned

ivars == <<x, x1, x2, y1, y2, result>>
svars == <<self, op, args, res>>
dvars == <<databases, data, dbs, created, made, first, last>>
vars  == <<ivars, svars, dvars>>

(***************************************************************************)
(* Bounds of the model.                                                    *)
(***************************************************************************)
MaxCoord == 2     \* abscissas and ordinates are drawn from -MaxCoord..MaxCoord
MaxNum   == 1     \* plain numbers held by a SymDict are drawn from 1..MaxNum
NumDbs   == 2     \* database names are 1..NumDbs
NumPaths == 2     \* importDb reads one of NumPaths files; file p holds p activities

(***************************************************************************)
(* Exact arithmetic on Python numbers.                                     *)
(***************************************************************************)
IAbs(n) == IF n < 0 THEN -n ELSE n

RECURSIVE GCD(_, _)
GCD(m, n) == IF n = 0 THEN m ELSE GCD(n, m % n)

\* The number n / d, d # 0, in lowest terms with a positive denominator.
Rat(n, d) ==
    LET g == GCD(IAbs(n), IAbs(d))
        s == IF d < 0 THEN -1 ELSE 1
    IN  <<(s * n) \div g, (s * d) \div g>>

Int2Rat(n) == <<n, 1>>

QAdd(p, q) == Rat(p[1] * q[2] + q[1] * p[2], p[2] * q[2])
QSub(p, q) == Rat(p[1] * q[2] - q[1] * p[2], p[2] * q[2])
QMul(p, q) == Rat(p[1] * q[1], p[2] * q[2])
\* p / q; Python raises ZeroDivisionError when q is 0, callers guard it.
QDiv(p, q) == Rat(p[1] * q[2], p[2] * q[1])
QAbs(p)   == <<IAbs(p[1]), p[2]>>
QLe(p, q)  == p[1] * q[2] <= q[1] * p[2]
QLt(p, q)  == p[1] * q[2] < q[1] * p[2]
QIsZero(p) == p[1] = 0

(***************************************************************************)
(* base_utils.py: Max, Min, interpolate.                                   *)
(***************************************************************************)
MaxWrongSign(p, q) == QDiv(QSub(QAdd(p, q), QAbs(QSub(p, q))), Int2Rat(2))

\* def Max(a, b): return (a + b + abs(a - b)) / 2
Max(p, q) == QDiv(QAdd(QAdd(p, q), QAbs(QSub(p, q))), Int2Rat(2))

\* def Min(a, b): return (a + b - abs(b - a)) / 2
Min(p, q) == QDiv(QSub(QAdd(p, q), QAbs(QSub(q, p))), Int2Rat(2))

\* x = Min(Max(x, x1), x2); return y1 + (y2 - y1) * (x - x1) / (x2 - x1)
interpolate(px, px1, px2, py1, py2) ==
    LET cx == Min(Max(px, px1), px2)
    IN  QAdd(py1, QDiv(QMul(QSub(py2, py1), QSub(cx, px1)), QSub(px2, px1)))

\* Half-integers and integers in [-MaxCoord, MaxCoord].
Abscissas == {Rat(n, 2) : n \in (-2 * MaxCoord)..(2 * MaxCoord)}
Ordinates == {Int2Rat(n) : n \in (-MaxCoord)..MaxCoord}
Bounds    == {Int2Rat(n) : n \in (-1)..MaxCoord}

InitInterp ==
    /\ x \in Abscissas
    /\ x1 \in Bounds
    /\ x2 \in Bounds
    /\ y1 \in Ordinates
    /\ y2 \in Ordinates
    /\ result = "none"

\* A call interpolate(x, x1, x2, y1, y2); x1 = x2 divides by zero and raises.
Interpolate ==
    /\ result = "none"
    /\ x1 # x2
    /\ result' = interpolate(x, x1, x2, y1, y2)
    /\ UNCHANGED <<x, x1, x2, y1, y2>>

NextInterp == Interpolate /\ UNCHANGED <<svars, dvars>>

(***************************************************************************)
(* Values a SymDict holds: plain Python numbers and sympy expressions.     *)
(* A value is [sym, c, co]: sym tells a sympy object (which has xreplace   *)
(* and free_symbols) from a plain int or float (which has neither); the    *)
(* value is c + SUM co[v] * v over the symbols v.                          *)
(***************************************************************************)
Symbols == {"x", "y"}

NoSymbol == [v \in Symbols |-> Int2Rat(0)]

\* A plain Python number.
Num(q) == [sym |-> FALSE, c |-> q, co |-> NoSymbol]
\* A sympy number.
SNum(q) == [sym |-> TRUE, c |-> q, co |-> NoSymbol]
\* A sympy symbol.
Var(v) == [sym |-> TRUE, c |-> Int2Rat(0),
           co |-> [w \in Symbols |-> IF w = v THEN Int2Rat(1) ELSE Int2Rat(0)]]

\* a + b: the sum is a sympy object as soon as one operand is.
VAdd(p, q) == [sym |-> p.sym \/ q.sym, c |-> QAdd(p.c, q.c),
               co |-> [v \in Symbols |-> QAdd(p.co[v], q.co[v])]]

IsNumber(k) == \A v \in Symbols : QIsZero(k.co[v])

\* a * b where one of the two is a number (plain or sympy), and a / k for a
\* number k.
VMul(p, q) ==
    LET e == IF IsNumber(q) THEN p ELSE q
        k == IF IsNumber(q) THEN q ELSE p
    IN  [sym |-> p.sym \/ q.sym, c |-> QMul(e.c, k.c),
         co |-> [v \in Symbols |-> QMul(e.co[v], k.c)]]
VDiv(p, k) == [sym |-> p.sym \/ k.sym, c |-> QDiv(p.c, k.c),
               co |-> [v \in Symbols |-> QDiv(p.co[v], k.c)]]

\* hasattr(val, "xreplace"), hasattr(val, "free_symbols")
HasAttr(val) == val.sym

\* val.free_symbols of a sympy object
FreeSymbolsOf(val) == {v \in Symbols : ~QIsZero(val.co[v])}

RECURSIVE SumOver(_, _, _)
SumOver(val, rule, S) ==
    IF S = {} THEN Int2Rat(0)
    ELSE LET v == CHOOSE w \in S : TRUE
         IN  QAdd(QMul(val.co[v], rule[v]), SumOver(val, rule, S \ {v}))

\* val.xreplace(rule) of a sympy object, rule mapping symbols to plain
\* numbers: a symbol that is a key of rule is answered by rule's own (plain)
\* value, any other expression is rebuilt from its replaced arguments.
XReplaceOf(val, rule) ==
    IF \E v \in DOMAIN rule : val = Var(v)
    THEN Num(rule[CHOOSE v \in DOMAIN rule : val = Var(v)])
    ELSE [sym |-> TRUE,
          c   |-> QAdd(val.c, SumOver(val, rule, DOMAIN rule)),
          co  |-> [v \in Symbols |->
                     IF v \in DOMAIN rule THEN Int2Rat(0) ELSE val.co[v]]]

(***************************************************************************)
(* base_utils.py: class SymDict.                                           *)
(***************************************************************************)
None == "None"                      \* the key of the non flagged values
Keys == {None, "GWP", "Land"}

\* SymDict(values): self.dict = values
SymDict(values) == [cls |-> "SymDict", dict |-> values]

\* isinstance(other, SymDict)
IsSymDict(o) == "cls" \in DOMAIN o

\* dict.get(key, default)
Get(d, key, default) == IF key \in DOMAIN d THEN d[key] ELSE default

\* The lambdas the operators hand to _apply_op and _apply_self, as data:
\* the body and, for the scalings, the captured other.
Call2(fop, a, b) ==
    CASE fop.body = "a + b" -> VAdd(a, b)
      [] fop.body = "b + a" -> VAdd(b, a)
Call1(fop, a) ==
    CASE fop.body = "a * other" -> VMul(a, fop.other)
      [] fop.body = "other * a" -> VMul(fop.other, a)
      [] fop.body = "a / other" -> VDiv(a, fop.other)

\* _apply_op without "dic[None] = other": a non-SymDict operand is dropped.
ApplyOpDropsScalar(s, o, fop, null_val) ==
    LET od       == IF ~IsSymDict(o) THEN <<>> ELSE o.dict
        all_keys == DOMAIN od \cup DOMAIN s.dict
    IN  SymDict([key \in all_keys |->
                    Call2(fop, Get(s.dict, key, null_val), Get(od, key, null_val))])

\* SymDict._apply_op
ApplyOp(s, o, fop, null_val) ==
    LET od       == IF ~IsSymDict(o) THEN (None :> o) ELSE o.dict
        all_keys == DOMAIN od \cup DOMAIN s.dict
    IN  SymDict([key \in all_keys |->
                    Call2(fop, Get(s.dict, key, null_val), Get(od, key, null_val))])

\* _apply_self written over the keys _apply_op would build for a scalar.
ApplySelfAddsNone(s, fop) ==
    SymDict([key \in DOMAIN s.dict \cup {None} |->
                Call1(fop, Get(s.dict, key, Num(Int2Rat(0))))])

\* SymDict._apply_self
ApplySelf(s, fop) == SymDict([key \in DOMAIN s.dict |-> Call1(fop, s.dict[key])])

Zero == Num(Int2Rat(0))

\* __add__ over the keys the two operands share, instead of all of them.
SymAddCommonKeys(s, o) ==
    LET od == IF ~IsSymDict(o) THEN (None :> o) ELSE o.dict
    IN  SymDict([key \in DOMAIN od \cap DOMAIN s.dict |-> VAdd(s.dict[key], od[key])])

\* SymDict.__add__, __radd__
SymAdd(s, o)  == ApplyOp(s, o, [body |-> "a + b"], Zero)
SymRAdd(s, o) == ApplyOp(s, o, [body |-> "b + a"], Zero)

\* SymDict.__mul__, __rmul__, __truediv__
SymMul(s, k)     == ApplySelf(s, [body |-> "a * other", other |-> k])
SymRMul(s, k)    == ApplySelf(s, [body |-> "other * a", other |-> k])
SymTrueDiv(s, k) == ApplySelf(s, [body |-> "a / other", other |-> k])

\* _defer keeping only the values that have the method.
DeferDropsPlain(s, rule) ==
    SymDict([key \in {k \in DOMAIN s.dict : HasAttr(s.dict[k])} |->
                XReplaceOf(s.dict[key], rule)])

\* SymDict._defer("xreplace", args, kwargs), SymDict.xreplace
Defer(s, rule) ==
    SymDict([key \in DOMAIN s.dict |->
                IF ~HasAttr(s.dict[key]) THEN s.dict[key]
                ELSE XReplaceOf(s.dict[key], rule)])
SymXReplace(s, rule) == Defer(s, rule)

\* SymDict.free_symbols: the set res built by the loop
FreeSymbolsSet(s) ==
    UNION {FreeSymbolsOf(s.dict[key]) : key \in {k \in DOMAIN s.dict : HasAttr(s.dict[k])}}

\* list(res): the elements of the set, once each, in an order Python chooses
ListsOf(S) == {l \in [1..Cardinality(S) -> S] : {l[i] : i \in 1..Len(l)} = S}

(***************************************************************************)
(* The SymDict operations, on operands drawn from small sets.              *)
(***************************************************************************)
InitValues == {Num(Int2Rat(n)) : n \in 1..MaxNum}
                \cup {Var("x"), VAdd(Var("y"), Num(Int2Rat(1))), SNum(Int2Rat(2))}

SymDicts == {SymDict(d) : d \in UNION {[D -> InitValues] : D \in SUBSET Keys}}

\* What is added to a SymDict that is not one.
Scalars == {Num(Int2Rat(n)) : n \in (-1)..MaxNum} \cup {Var("x"), SNum(Int2Rat(2))}

\* What a SymDict is scaled by.
Factors == {Num(Rat(n, 2)) : n \in {-2, 0, 1}}
              \cup {Num(Int2Rat(MaxNum + 1)), SNum(Int2Rat(2))}

Rules == UNION {[D -> {Int2Rat(n) : n \in 0..MaxNum}] : D \in SUBSET Symbols}

InitSym ==
    /\ self \in SymDicts
    /\ op = "none"
    /\ args = <<>>
    /\ res = "none"

\* self + other, other a SymDict
Add(o) ==
    /\ op = "none"
    /\ op' = "add"
    /\ args' = <<o>>
    /\ res' = SymAdd(self, o)
    /\ UNCHANGED self

\* self + v, v not a SymDict
AddScalar(v) ==
    /\ op = "none"
    /\ op' = "add_scalar"
    /\ args' = <<v>>
    /\ res' = SymAdd(self, v)
    /\ UNCHANGED self

\* v + self, v not a SymDict: v.__add__ gives up and self.__radd__(v) runs
RAddScalar(v) ==
    /\ op = "none"
    /\ op' = "radd_scalar"
    /\ args' = <<v>>
    /\ res' = SymRAdd(self, v)
    /\ UNCHANGED self

\* self * k
Mul(k) ==
    /\ op = "none"
    /\ op' = "mul"
    /\ args' = <<k>>
    /\ res' = SymMul(self, k)
    /\ UNCHANGED self

\* k * self
RMul(k) ==
    /\ op = "none"
    /\ op' = "rmul"
    /\ args' = <<k>>
    /\ res' = SymRMul(self, k)
    /\ UNCHANGED self

\* self / k; a zero k raises in the division of the first value
TrueDiv(k) ==
    /\ op = "none"
    /\ ~QIsZero(k.c)
    /\ op' = "truediv"
    /\ args' = <<k>>
    /\ res' = SymTrueDiv(self, k)
    /\ UNCHANGED self

\* (self + o) * k
MulOfSum(o, k) ==
    /\ op = "none"
    /\ op' = "mul_of_sum"
    /\ args' = <<o, k>>
    /\ res' = SymMul(SymAdd(self, o), k)
    /\ UNCHANGED self

\* self.xreplace(rule)
XReplace(rule) ==
    /\ op = "none"
    /\ op' = "xreplace"
    /\ args' = <<rule>>
    /\ res' = SymXReplace(self, rule)
    /\ UNCHANGED self

\* self.free_symbols
FreeSymbols ==
    /\ op = "none"
    /\ op' = "free_symbols"
    /\ args' = <<>>
    /\ res' \in ListsOf(FreeSymbolsSet(self))
    /\ UNCHANGED self

\* One operation is run on each drawn receiver.
NextSym ==
    \/ \E o \in SymDicts : Add(o) /\ UNCHANGED <<ivars, dvars>>
    \/ \E v \in Scalars : AddScalar(v) /\ UNCHANGED <<ivars, dvars>>
    \/ \E v \in Scalars : RAddScalar(v) /\ UNCHANGED <<ivars, dvars>>
    \/ \E k \in Factors : Mul(k) /\ UNCHANGED <<ivars, dvars>>
    \/ \E k \in Factors : RMul(k) /\ UNCHANGED <<ivars, dvars>>
    \/ \E k \in Factors : TrueDiv(k) /\ UNCHANGED <<ivars, dvars>>
    \/ \E o \in SymDicts, k \in Factors : MulOfSum(o, k) /\ UNCHANGED <<ivars, dvars>>
    \/ \E rule \in Rules : XReplace(rule) /\ UNCHANGED <<ivars, dvars>>
    \/ FreeSymbols /\ UNCHANGED <<ivars, dvars>>

(***************************************************************************)
(* base_utils.py: _getDb; __init__.py: deleteDb, resetDb, importDb.        *)
(* bw.databases is the framework's registry (a name is registered when it  *)
(* is a key of it) and data holds what is stored under each name.          *)
(***************************************************************************)
DbNames == 1..NumDbs
Paths   == 1..NumPaths

\* The activities of the file at path.
Activities(path) == 1..path

NoCall == [op |-> "none", name |-> 0, foreground |-> FALSE, ret |-> 0,
           pool |-> <<>>, registered |-> FALSE, rows |-> 0]

InitDb ==
    /\ databases = <<>>
    /\ data = [n \in DbNames |-> {}]
    /\ dbs = <<>>
    /\ created = 0
    /\ made = [n \in DbNames |-> 0]
    /\ first = [n \in DbNames |-> 0]
    /\ last = NoCall

\* f without the key k
Without(f, k) == [n \in DOMAIN f \ {k} |-> f[n]]

\* del bw.databases[name]: the name leaves the registry and its stored
\* activities are deleted
DelDatabase(st, name) ==
    [databases |-> Without(st.databases, name),
     data      |-> [st.data EXCEPT ![name] = {}]]

\* Database(name).write(rows): registers the name when it is not registered,
\* records the number of rows and, when there are rows, replaces the stored ones
WriteDatabase(st, name, rows) ==
    LET meta == IF name \in DOMAIN st.databases THEN st.databases[name]
                ELSE [number |-> 0, kind |-> "unset"]
    IN  [databases |-> (name :> [meta EXCEPT !.number = Cardinality(rows)])
                          @@ st.databases,
         data      |-> IF rows # {} THEN [st.data EXCEPT ![name] = rows] ELSE st.data]

\* setForeground(db_name), setBackground(db_name): mark a registered database
SetKind(st, name, kind) ==
    [st EXCEPT !.databases[name].kind = kind]
setForeground(st, name) == SetKind(st, name, "foreground")
setBackground(st, name) == SetKind(st, name, "background")

resetDbKeepsOld(st, db_name, foreground) ==
    LET written == WriteDatabase(st, db_name, {})
    IN  IF foreground THEN setForeground(written, db_name)
        ELSE setBackground(written, db_name)

\* def resetDb(db_name, foreground=True), as a function of the registry
resetDb(st, db_name, foreground) ==
    LET cleared == IF db_name \in DOMAIN st.databases
                   THEN DelDatabase(st, db_name) ELSE st
        written == WriteDatabase(cleared, db_name, {})
    IN  IF foreground THEN setForeground(written, db_name)
        ELSE setBackground(written, db_name)

Registry == [databases |-> databases, data |-> data]

\* What an operation on name saw before it ran.
Seen(name) == [NoCall EXCEPT !.name = name,
                             !.registered = name \in DOMAIN databases,
                             !.rows = Cardinality(data[name])]

\* deleteDb(db_name); a name that is not registered raises KeyError
DeleteDb(db_name) ==
    /\ db_name \in DOMAIN databases
    /\ LET st == DelDatabase(Registry, db_name)
       IN  /\ databases' = st.databases
           /\ data' = st.data
    /\ last' = [Seen(db_name) EXCEPT !.op = "deleteDb"]
    /\ UNCHANGED <<dbs, created, made, first>>

\* resetDb(db_name, foreground)
ResetDb(db_name, foreground) ==
    /\ LET st == resetDb(Registry, db_name, foreground)
       IN  /\ databases' = st.databases
           /\ data' = st.data
    /\ last' = [Seen(db_name) EXCEPT !.op = "resetDb", !.foreground = foreground]
    /\ UNCHANGED <<dbs, created, made, first>>

\* importDb(dbname, path): an imported name is left alone, any other is
\* written with the activities of the file
ImportDb(dbname, path) ==
    /\ IF dbname \in DOMAIN databases
       THEN UNCHANGED <<databases, data>>
       ELSE LET st == WriteDatabase(Registry, dbname, Activities(path))
            IN  /\ databases' = st.databases
                /\ data' = st.data
    /\ last' = [Seen(dbname) EXCEPT !.op = "importDb"]
    /\ UNCHANGED <<dbs, created, made, first>>

getDbAlwaysNew(pool, count, dbname) ==
    [dbs |-> (dbname :> count + 1) @@ pool, created |-> count + 1, ret |-> count + 1]

\* def _getDb(dbname): the pool and the instance counter after the call,
\* and the instance returned; instances are told apart by their number
getDb(pool, count, dbname) ==
    LET fresh == dbname \notin DOMAIN pool
        pool2 == IF fresh THEN (dbname :> count + 1) @@ pool ELSE pool
    IN  [dbs |-> pool2, created |-> IF fresh THEN count + 1 ELSE count,
         ret |-> pool2[dbname]]

\* _getDb(dbname)
GetDb(dbname) ==
    /\ LET r == getDb(dbs, created, dbname)
       IN  /\ dbs' = r.dbs
           /\ created' = r.created
           /\ made' = [made EXCEPT ![dbname] = @ + (r.created - created)]
           /\ first' = IF first[dbname] = 0 THEN [first EXCEPT ![dbname] = r.ret]
                       ELSE first
           /\ last' = [Seen(dbname) EXCEPT !.op = "getDb", !.ret = r.ret, !.pool = dbs]
    /\ UNCHANGED <<databases, data>>

NextDb ==
    \/ \E n \in DbNames : DeleteDb(n) /\ UNCHANGED <<ivars, svars>>
    \/ \E n \in DbNames, f \in BOOLEAN : ResetDb(n, f) /\ UNCHANGED <<ivars, svars>>
    \/ \E n \in DbNames, p \in Paths : ImportDb(n, p) /\ UNCHANGED <<ivars, svars>>
    \/ \E n \in DbNames : GetDb(n) /\ UNCHANGED <<ivars, svars>>

(***************************************************************************)
(* The specifications: each runs one part of the library and leaves the    *)
(* state of the others as it starts.                                       *)
(***************************************************************************)
IdleInterp ==
    /\ x = Int2Rat(0) /\ x1 = Int2Rat(0) /\ x2 = Int2Rat(1)
    /\ y1 = Int2Rat(0) /\ y2 = Int2Rat(0)
    /\ result = "none"

IdleSym ==
    /\ self = SymDict(<<>>)
    /\ op = "none"
    /\ args = <<>>
    /\ res = "none"

StartInterp == InitInterp /\ IdleSym /\ InitDb
StartSym    == IdleInterp /\ InitSym /\ InitDb
StartDb     == IdleInterp /\ IdleSym /\ InitDb

SpecInterp == StartInterp /\ [][NextInterp]_vars
SpecSym    == StartSym /\ [][NextSym]_vars
SpecDb     == StartDb /\ [][NextDb]_vars

(***************************************************************************)
(* Properties.                                                             *)
(***************************************************************************)

\* C1: for two SymDict operands a and b, a + b is a SymDict whose keys are
\* keys(a) union keys(b) and whose value at each key k is a[k] + b[k], an
\* operand that lacks k counting for 0, so that a key of one operand only
\* keeps that operand's value.
C1_AddIsKeywiseSum ==
    op = "add" =>
        LET a == self.dict
            b == args[1].dict
        IN  /\ IsSymDict(res)
            /\ DOMAIN res.dict = DOMAIN a \cup DOMAIN b
            /\ \A k \in DOMAIN res.dict :
                  /\ res.dict[k] = VAdd(IF k \in DOMAIN a THEN a[k] ELSE Zero,
                                        IF k \in DOMAIN b THEN b[k] ELSE Zero)
                  /\ (k \notin DOMAIN b) => res.dict[k] = a[k]
                  /\ (k \notin DOMAIN a) => res.dict[k] = b[k]

\* A sum of two SymDicts with a key of the first only, a key of the second
\* only and a key of both.
C1_Witness ==
    /\ op = "add"
    /\ DOMAIN self.dict \ DOMAIN args[1].dict # {}
    /\ DOMAIN args[1].dict \ DOMAIN self.dict # {}
    /\ DOMAIN self.dict \cap DOMAIN args[1].dict # {}

\* C2: adding a value v that is not a SymDict to a SymDict s, on either
\* side, counts v as the value of the key None: the keys of the result are
\* keys(s) union {None}, its value at None is s[None] + v (s[None] being 0
\* when s has no such key) and its value at any other key k is s[k].
C2_ScalarGoesToNone ==
    op \in {"add_scalar", "radd_scalar"} =>
        LET s == self.dict
            v == args[1]
        IN  /\ IsSymDict(res)
            /\ DOMAIN res.dict = DOMAIN s \cup {None}
            /\ res.dict[None] = VAdd(IF None \in DOMAIN s THEN s[None] ELSE Zero, v)
            /\ \A k \in DOMAIN res.dict \ {None} : res.dict[k] = s[k]

\* v + s for an s with flagged keys and without the key None.
C2_Witness ==
    /\ op = "radd_scalar"
    /\ None \notin DOMAIN self.dict
    /\ DOMAIN self.dict # {}

C6_DeferToValues ==
    /\ op = "xreplace" =>
          /\ IsSymDict(res)
          /\ DOMAIN res.dict = DOMAIN self.dict
          /\ \A k \in DOMAIN self.dict :
                res.dict[k] = IF self.dict[k].sym
                              THEN XReplaceOf(self.dict[k], args[1])
                              ELSE self.dict[k]
    /\ op = "free_symbols" =>
          {res[i] : i \in 1..Len(res)} =
              UNION {FreeSymbolsOf(self.dict[k]) :
                        k \in {j \in DOMAIN self.dict : self.dict[j].sym}}

\* An xreplace on a SymDict holding a plain number and an expression that
\* the rule changes.
C6_Witness ==
    /\ op = "xreplace"
    /\ \E k \in DOMAIN self.dict : ~self.dict[k].sym
    /\ \E k \in DOMAIN self.dict : self.dict[k].sym /\ res.dict[k] # self.dict[k]

C5_PoolOfInstances ==
    /\ \A n \in DbNames : made[n] <= 1
    /\ \A n \in DOMAIN dbs : dbs[n] = first[n]
    /\ last.op = "getDb" =>
          /\ last.ret = first[last.name]
          /\ \A m \in DbNames \ {last.name} :
                /\ m \in DOMAIN dbs <=> m \in DOMAIN last.pool
                /\ m \in DOMAIN last.pool => dbs[m] = last.pool[m]

\* A second _getDb of a name, with another name pooled as well.
C5_Witness ==
    /\ last.op = "getDb"
    /\ last.name \in DOMAIN last.pool
    /\ Cardinality(DOMAIN dbs) >= 2

====
